---- MODULE Spec2Model ----
(***************************************************************************)
(* Model of computer_use_demo/context_manager.py: the ContextManager that  *)
(* keeps a pinned core context and a token-budgeted, FIFO-evicted dynamic  *)
(* context.                                                                *)
(*                                                                         *)
(* Text is modelled as the sequence of tokens the tiktoken encoding yields *)
(* for it, so len(self.encoding.encode(text)) is the length of the         *)
(* sequence.  A message is a record [role, content]; content is tagged     *)
(* with its Python type: [kind |-> "str", text] or [kind |-> "list",       *)
(* blocks].  datetime.now() is modelled by the logical clock `now`, read   *)
(* and advanced by every call that creates a MessageContext.               *)
(***************************************************************************)
EXTENDS Integers, Sequences, FiniteSets, TLC

\* Bound on the logical clock: the number of MessageContext creations.
MaxClock == 4

\* Bound on the lines logged by the ChatLogger.
MaxLog == 2

\* Bound on the seconds the ChatLogger's wall clock shows.
MaxSecond == 1

\* Bound on the image files the ChatLogger writes.
MaxImages == 1

VARIABLES
    max_tokens,      \* self.max_tokens
    current_tokens,  \* self.current_tokens (set by __init__, never updated)
    messages,        \* self.messages, the deque of dynamic entries
    core_context,    \* self.core_context
    core_tokens,     \* self.core_tokens
    now,             \* logical clock behind datetime.now()
    op,              \* the last call made on the manager
    arg,             \* its argument
    ret,             \* its return value
    exc,             \* the exception it raised ("None": it returned)
    threads,         \* the calls in progress in concurrent threads
    call,            \* the last provider call: its input, result and effects
    logger,          \* the ChatLogger, its files and its last call
    history          \* what a caller passed to add_message and got back

vars == <<max_tokens, current_tokens, messages, core_context, core_tokens,
          now, op, arg, ret, exc, threads, call, logger, history>>

\* what the calls on the ContextManager made one at a time leave alone
aux == <<threads, call, logger, history>>

state == <<max_tokens, current_tokens, messages, core_context, core_tokens>>

----------------------------------------------------------------------------
\* Inputs

\* A text of n tokens.
Text(n) == [i \in 1..n |-> "t"]

Str(text) == [kind |-> "str", text |-> text]

List(blocks) == [kind |-> "list", blocks |-> blocks]

TextBlock(text) == [type |-> "text", text |-> text]

ToolUseBlock(name, id, input) ==
    [type |-> "tool_use", name |-> name, id |-> id, input |-> input]

ToolResultBlock(id, content) ==
    [type |-> "tool_result", tool_use_id |-> id, content |-> content]

Message(role, content) == [role |-> role, content |-> content]

Sys20 == Message("system", Str(Text(20)))

Empty == Message("user", Str(<<>>))

User30 == Message("user", Str(Text(30)))

Asst50 == Message("assistant", Str(Text(50)))

\* 5 + 17 + 2 = 24 tokens
Blocks24 == Message("assistant",
    List(<<TextBlock(Text(5)),
           ToolUseBlock(<<"bash">>, <<"id1">>, <<"{}">>),
           ToolResultBlock(<<"id1">>, Str(Text(2)))>>))

\* 0 + 25 + 3 = 28 tokens; the image block is not counted
Blocks28 == Message("user",
    List(<<[type |-> "image"],
           ToolResultBlock(<<"id1">>, List(<<TextBlock(Text(3))>>)),
           [str |-> Text(3)]>>))

\* The messages the calls are made with.
Messages == {Empty, Sys20, User30, Asst50, Blocks24}

\* The budgets the manager is constructed with.
MaxTokensChoices == {60, 100}

\* The core_context lists the manager is constructed with ([] stands for
\* None as well: both skip the loop of __init__).
CoreContextChoices == {<<>>, <<Sys20>>, <<Blocks28, Asst50>>}

----------------------------------------------------------------------------
\* Helpers

\* Python's None
NoneVal == [kind |-> "None"]

RECURSIVE SumTokens(_)
\* sum(m.tokens for m in entries)
SumTokens(entries) ==
    IF entries = <<>> THEN 0
    ELSE entries[1].tokens + SumTokens(Tail(entries))

\* self.encoding.encode(text)
encode(text) == text

RECURSIVE json_dumps(_), json_dumps_list(_)
\* json.dumps(block, ensure_ascii=False), as the tokens of the string; the
\* keys come in the insertion order of the dict
json_dumps(block) ==
    IF block.type = "tool_use" THEN
        <<"{", "type", ":", "tool_use", ",", "name", ":">> \o block.name
        \o <<",", "id", ":">> \o block.id
        \o <<",", "input", ":">> \o block.input \o <<"}">>
    ELSE IF block.type = "tool_result" THEN
        <<"{", "type", ":", "tool_result", ",", "tool_use_id", ":">>
        \o block.tool_use_id \o <<",", "content", ":">>
        \o (IF block.content.kind = "str" THEN block.content.text
            ELSE <<"[">> \o json_dumps_list(block.content.blocks) \o <<"]">>)
        \o <<"}">>
    ELSE IF block.type = "text" THEN
        <<"{", "type", ":", "text", ",", "text", ":">> \o block.text \o <<"}">>
    ELSE <<"{", "type", ":", block.type, "}">>

\* the elements of a JSON array, separated by commas
json_dumps_list(blocks) ==
    IF blocks = <<>> THEN <<>>
    ELSE IF Len(blocks) = 1 THEN json_dumps(blocks[1])
    ELSE json_dumps(blocks[1]) \o <<",">> \o json_dumps_list(Tail(blocks))

\* isinstance(block, str): a str inside a content list is the record
\* [str |-> text]; every other block is a dict with a "type" key.
IsStr(block) == DOMAIN block = {"str"}

\* the tokens one block of a content list adds (the body of the for loop)
block_tokens(block) ==
    IF ~IsStr(block) THEN
        IF block.type = "text" THEN Len(encode(block.text))
        ELSE IF block.type = "tool_use" THEN Len(encode(json_dumps(block)))
        ELSE IF block.type = "tool_result" THEN
            IF block.content.kind = "str"
            THEN Len(encode(block.content.text))
            ELSE Len(encode(json_dumps(block)))
        ELSE 0
    ELSE Len(encode(block.str))

RECURSIVE sum_block_tokens_distinct(_)
\* a discount for repeated content: a block equal to a later one is not
\* counted
sum_block_tokens_distinct(blocks) ==
    IF blocks = <<>> THEN 0
    ELSE (IF \E i \in 2..Len(blocks) : blocks[i] = blocks[1]
          THEN 0 ELSE block_tokens(blocks[1]))
         + sum_block_tokens_distinct(Tail(blocks))

RECURSIVE sum_block_tokens(_)
\* the for loop over message['content']
sum_block_tokens(blocks) ==
    IF blocks = <<>> THEN 0
    ELSE block_tokens(blocks[1]) + sum_block_tokens(Tail(blocks))

\* ContextManager._count_tokens
_count_tokens(message) ==
    IF message.content.kind = "list"
    THEN sum_block_tokens(message.content.blocks)
    ELSE Len(encode(message.content.text))

\* the dataclass MessageContext
MessageContext(content, tokens, timestamp, is_core) ==
    [content |-> content, tokens |-> tokens, timestamp |-> timestamp,
     is_core |-> is_core]

----------------------------------------------------------------------------
\* Operations

\* add_core_message without the update of the running core total
core_append_stale(core, ctokens, message, t) ==
    LET tokens == _count_tokens(message)
        ctx == MessageContext(message, tokens, t, TRUE)
    IN [core_context |-> Append(core, ctx), core_tokens |-> ctokens]

\* the state change of add_core_message: the new core_context and
\* core_tokens
core_append(core, ctokens, message, t) ==
    LET tokens == _count_tokens(message)
        ctx == MessageContext(message, tokens, t, TRUE)
    IN [core_context |-> Append(core, ctx), core_tokens |-> ctokens + tokens]

RECURSIVE init_core(_, _, _, _)
\* the loop of __init__ over core_context, one add_core_message each
init_core(core, ctokens, msgs, t) ==
    IF msgs = <<>> THEN [core_context |-> core, core_tokens |-> ctokens]
    ELSE LET r == core_append(core, ctokens, msgs[1], t)
         IN init_core(r.core_context, r.core_tokens, Tail(msgs), t + 1)

\* the threads that call into one ContextManager
Threads == {"t1", "t2"}

\* a thread that is not inside a call
IdleThread == [pc |-> "idle"]

\* a pathlib.Path, as the sequence of its parts, each part a text
Path(parts) == [kind |-> "path", parts |-> parts]

\* the base_dir the ChatLogger is constructed with
BaseDir == << <<"chat_logs">> >>

\* a directory and a text file of the file system
Dir == [kind |-> "dir"]

File(lines) == [kind |-> "file", lines |-> lines]

\* a binary file of the file system
Bytes(data) == [kind |-> "bytes", data |-> data]

\* ChatLogger.__init__: base_dir is created, no session is started; `fs`
\* is the file system below base_dir, `clock` the wall clock in seconds and
\* `ticks` the seconds that pass after each of the clock reads of the call
\* in progress
ChatLogger_init ==
    [base_dir |-> BaseDir,
     current_session |-> NoneVal,
     current_log_file |-> NoneVal,
     image_counter |-> 0,
     fs |-> (BaseDir :> Dir),
     clock |-> 0, ticks |-> <<>>,
     op |-> "__init__", arg |-> NoneVal, value |-> NoneVal, exc |-> "None"]

\* ContextManager.__init__
Init ==
    \E mt \in MaxTokensChoices, cc \in CoreContextChoices :
        LET r == init_core(<<>>, 0, cc, 0) IN
        /\ max_tokens = mt
        /\ current_tokens = 0
        /\ messages = <<>>
        /\ core_context = r.core_context
        /\ core_tokens = r.core_tokens
        /\ now = Len(cc)
        /\ op = "__init__"
        /\ arg = cc
        /\ ret = "None"
        /\ exc = "None"
        /\ threads = [t \in Threads |-> IdleThread]
        /\ call = [fn |-> "None"]
        /\ logger = ChatLogger_init
        /\ history = [inserted |-> <<>>, returned |-> <<>>]

\* an add_core_message that drops the dynamic entries when over budget
add_core_message_evicting(message) ==
    /\ now < MaxClock
    /\ LET r == core_append(core_context, core_tokens, message, now) IN
        /\ core_context' = r.core_context
        /\ core_tokens' = r.core_tokens
        /\ messages' = IF r.core_tokens + SumTokens(messages) > max_tokens
                       THEN <<>> ELSE messages
    /\ now' = now + 1
    /\ op' = "add_core_message"
    /\ arg' = message
    /\ ret' = "None"
    /\ UNCHANGED <<max_tokens, current_tokens, exc>>
    /\ UNCHANGED aux

\* ContextManager.add_core_message
add_core_message(message) ==
    /\ now < MaxClock
    /\ LET r == core_append(core_context, core_tokens, message, now) IN
        /\ core_context' = r.core_context
        /\ core_tokens' = r.core_tokens
    /\ now' = now + 1
    /\ op' = "add_core_message"
    /\ arg' = message
    /\ ret' = "None"
    /\ UNCHANGED <<max_tokens, current_tokens, messages, exc>>
    /\ UNCHANGED aux

\* an `if` in place of the `while`: at most one entry is evicted
evict_once(msgs, current_dynamic_tokens, tokens, available_tokens, removed) ==
    IF current_dynamic_tokens + tokens > available_tokens /\ msgs # <<>>
    THEN [messages |-> Tail(msgs), removed |-> Append(removed, msgs[1])]
    ELSE [messages |-> msgs, removed |-> removed]

RECURSIVE evict_newest(_, _, _, _, _)
\* pop() in place of popleft(): the newest entry is evicted first
evict_newest(msgs, current_dynamic_tokens, tokens, available_tokens, removed) ==
    IF current_dynamic_tokens + tokens > available_tokens /\ msgs # <<>>
    THEN evict_newest(SubSeq(msgs, 1, Len(msgs) - 1),
                      current_dynamic_tokens - msgs[Len(msgs)].tokens, tokens,
                      available_tokens, Append(removed, msgs[Len(msgs)]))
    ELSE [messages |-> msgs, removed |-> removed]

\* the running total is not decremented: once the message does not fit,
\* every entry is evicted
evict_all(msgs, current_dynamic_tokens, tokens, available_tokens, removed) ==
    IF current_dynamic_tokens + tokens > available_tokens /\ msgs # <<>>
    THEN [messages |-> <<>>, removed |-> removed \o msgs]
    ELSE [messages |-> msgs, removed |-> removed]

RECURSIVE evict_forgetting(_, _, _, _, _)
\* the popped entries are not appended to removed
evict_forgetting(msgs, current_dynamic_tokens, tokens, available_tokens, removed) ==
    IF current_dynamic_tokens + tokens > available_tokens /\ msgs # <<>>
    THEN evict_forgetting(Tail(msgs), current_dynamic_tokens - msgs[1].tokens,
                          tokens, available_tokens, removed)
    ELSE [messages |-> msgs, removed |-> removed]

RECURSIVE evict(_, _, _, _, _)
\* the while loop of add_message: pops the oldest entries while the new
\* message does not fit
evict(msgs, current_dynamic_tokens, tokens, available_tokens, removed) ==
    IF current_dynamic_tokens + tokens > available_tokens /\ msgs # <<>>
    THEN evict(Tail(msgs), current_dynamic_tokens - msgs[1].tokens, tokens,
               available_tokens, Append(removed, msgs[1]))
    ELSE [messages |-> msgs, removed |-> removed]

\* appendleft() in place of append()
append_left(msgs, message, tokens, t) ==
    <<MessageContext(message, tokens, t, FALSE)>> \o msgs

\* the append that ends add_message
append_new(msgs, message, tokens, t) ==
    Append(msgs, MessageContext(message, tokens, t, FALSE))

\* add_message with available_tokens = self.max_tokens, the core tokens
\* forgotten
add_message_ignoring_core(message) ==
    /\ now < MaxClock
    /\ LET tokens == _count_tokens(message)
           available_tokens == max_tokens
           current_dynamic_tokens == SumTokens(messages)
           r == evict(messages, current_dynamic_tokens, tokens,
                      available_tokens, <<>>)
       IN /\ messages' = append_new(r.messages, message, tokens, now)
          /\ ret' = r.removed
    /\ now' = now + 1
    /\ op' = "add_message"
    /\ arg' = message
    /\ UNCHANGED <<max_tokens, current_tokens, core_context, core_tokens, exc>>
    /\ UNCHANGED aux

\* ContextManager.add_message
add_message(message) ==
    /\ now < MaxClock
    /\ LET tokens == _count_tokens(message)
           available_tokens == max_tokens - core_tokens
           current_dynamic_tokens == SumTokens(messages)
           r == evict(messages, current_dynamic_tokens, tokens,
                      available_tokens, <<>>)
       IN /\ messages' = append_new(r.messages, message, tokens, now)
          /\ ret' = r.removed
    /\ now' = now + 1
    /\ op' = "add_message"
    /\ arg' = message
    /\ UNCHANGED <<max_tokens, current_tokens, core_context, core_tokens, exc>>
    /\ UNCHANGED aux

\* the dynamic entries ahead of the core entries
current_context_dynamic_first(core, msgs) ==
    [i \in 1..Len(msgs \o core) |-> (msgs \o core)[i].content]

\* the list get_current_context returns
current_context(core, msgs) ==
    [i \in 1..Len(core \o msgs) |-> (core \o msgs)[i].content]

\* ContextManager.get_current_context
get_current_context ==
    /\ op' = "get_current_context"
    /\ arg' = "None"
    /\ ret' = current_context(core_context, messages)
    /\ UNCHANGED <<state, now, exc>>
    /\ UNCHANGED aux

\* the dict get_token_stats returns
token_stats(mt, ctokens, msgs) ==
    LET dynamic_tokens == SumTokens(msgs) IN
    [core_tokens |-> ctokens,
     dynamic_tokens |-> dynamic_tokens,
     total_tokens |-> ctokens + dynamic_tokens,
     available_tokens |-> mt - (ctokens + dynamic_tokens)]

\* ContextManager.get_token_stats
get_token_stats ==
    /\ op' = "get_token_stats"
    /\ arg' = "None"
    /\ ret' = token_stats(max_tokens, core_tokens, messages)
    /\ UNCHANGED <<state, now, exc>>
    /\ UNCHANGED aux

\* the list taken after the deque was cleared
cleared_after_clear(msgs) == <<>>

\* the list clear_dynamic_context returns
cleared(msgs) == msgs

\* a clear that drops the core context too
clear_everything ==
    /\ op' = "clear_dynamic_context"
    /\ arg' = "None"
    /\ ret' = cleared(messages \o core_context)
    /\ messages' = <<>>
    /\ core_context' = <<>>
    /\ core_tokens' = 0
    /\ UNCHANGED <<max_tokens, current_tokens, now, exc>>
    /\ UNCHANGED aux

\* ContextManager.clear_dynamic_context
clear_dynamic_context ==
    /\ op' = "clear_dynamic_context"
    /\ arg' = "None"
    /\ ret' = cleared(messages)
    /\ messages' = <<>>
    /\ UNCHANGED <<max_tokens, current_tokens, core_context, core_tokens,
                   now, exc>>
    /\ UNCHANGED aux

Next ==
    \/ \E message \in Messages : add_core_message(message)
    \/ \E message \in Messages : add_message(message)
    \/ get_current_context
    \/ get_token_stats
    \/ clear_dynamic_context

Spec == Init /\ [][Next]_vars

----------------------------------------------------------------------------
\* Properties

Last(seq) == seq[Len(seq)]

\* the token counts of a sequence of entries
TokensOf(entries) == [i \in 1..Len(entries) |-> entries[i].tokens]

\* the sum of the token counts of entries[from..Len(entries)]
SumFrom(entries, from) ==
    SumTokens(SubSeq(entries, from, Len(entries)))

\* C1: after every add_message call the dynamic entries fit in
\* max_tokens - core_tokens, or the entry just added alone exceeds that
\* bound and is the only dynamic entry whose token count exceeds it.
C1_DynamicBudget ==
    op = "add_message" =>
        LET bound == max_tokens - core_tokens IN
        \/ SumTokens(messages) <= bound
        \/ /\ Last(messages).tokens > bound
           /\ \A i \in 1..Len(messages) :
                  messages[i].tokens > bound => i = Len(messages)

\* an add_message call that returned after evicting and that left the
\* dynamic entries within the bound
C1_Witness ==
    /\ op = "add_message"
    /\ ret # <<>>
    /\ Len(messages) >= 2
    /\ SumTokens(messages) <= max_tokens - core_tokens

\* C2: eviction is strict FIFO: the list add_message returns is a prefix of
\* the dynamic sequence before the call, and the sequence after the call is
\* the remaining suffix followed by the new entry.
C2_FifoEviction ==
    [][op' = "add_message" =>
        \E k \in 0..Len(messages) :
            /\ ret' = SubSeq(messages, 1, k)
            /\ Len(messages') = Len(messages) - k + 1
            /\ SubSeq(messages', 1, Len(messages) - k)
                   = SubSeq(messages, k + 1, Len(messages))
            /\ Last(messages').content = arg'
            /\ ~Last(messages').is_core]_vars

\* an add_message call that evicted the two oldest entries and kept one
C2_Witness ==
    /\ op = "add_message"
    /\ Len(ret) = 2
    /\ Len(messages) = 2
    /\ ret[1].timestamp < ret[2].timestamp
    /\ ret[2].timestamp < messages[1].timestamp

\* C3: add_message evicts the least number k of oldest entries such that
\* the remaining dynamic tokens plus the new message's tokens fit in
\* max_tokens - core_tokens, or all of them when no k does; with max_tokens
\* = 100, core = 20 and dynamic entries of 30 and 30 tokens, adding 50
\* tokens evicts exactly the first entry and leaves a dynamic total of 80.
C3_MinimalEviction ==
    [][op' = "add_message" =>
        LET t == Last(messages').tokens
            available == max_tokens - core_tokens
            n == Len(messages)
            k == Len(ret')
            Fits(j) == SumFrom(messages, j + 1) + t <= available
        IN /\ k \in 0..n
           /\ \A j \in 0..(k - 1) : ~Fits(j)
           /\ k < n => Fits(k)
           /\ (/\ max_tokens = 100
               /\ core_tokens = 20
               /\ TokensOf(messages) = <<30, 30>>
               /\ t = 50)
              => /\ ret' = <<messages[1]>>
                 /\ SumTokens(messages') = 80]_vars

\* the scenario: budget 100, core 20, inserts of 30, 30 and 50 tokens
C3_Witness ==
    /\ op = "add_message"
    /\ max_tokens = 100
    /\ core_tokens = 20
    /\ TokensOf(ret) = <<30>>
    /\ TokensOf(messages) = <<30, 50>>

\* C4: the message passed to add_message is never dropped: it is the newest
\* dynamic entry and the last element of get_current_context(); when it
\* alone exceeds max_tokens - core_tokens it is the only dynamic entry and
\* get_token_stats() reports a negative available_tokens.
C4_NeverDropped ==
    op = "add_message" =>
        /\ messages # <<>>
        /\ Last(messages).content = arg
        /\ Last(current_context(core_context, messages)) = arg
        /\ Last(messages).tokens > max_tokens - core_tokens =>
              /\ Len(messages) = 1
              /\ token_stats(max_tokens, core_tokens, messages)
                     .available_tokens < 0

\* an oversized message was added and everything else was evicted
C4_Witness ==
    /\ op = "add_message"
    /\ ret # <<>>
    /\ Last(messages).content = arg
    /\ Last(messages).tokens > max_tokens - core_tokens
    /\ max_tokens - core_tokens > 0

\* C5: get_current_context() is the content of every core entry in
\* insertion order followed by the content of every dynamic entry,
\* oldest first; no dynamic message comes before a core message.
C5_ContextOrder ==
    LET ctx == current_context(core_context, messages)
        nc == Len(core_context)
        nd == Len(messages)
    IN /\ Len(ctx) = nc + nd
       /\ \A i \in 1..nc : /\ ctx[i] = core_context[i].content
                           /\ core_context[i].is_core
       /\ \A j \in 1..nd : /\ ctx[nc + j] = messages[j].content
                           /\ ~messages[j].is_core
       /\ \A i, j \in 1..nc :
              i < j => core_context[i].timestamp < core_context[j].timestamp
       /\ \A i, j \in 1..nd :
              i < j => messages[i].timestamp < messages[j].timestamp
       /\ op = "get_current_context" => ret = ctx

\* get_current_context() called when a core message was added after a
\* dynamic message that is still there
C5_Witness ==
    /\ op = "get_current_context"
    /\ core_context # <<>>
    /\ messages # <<>>
    /\ Last(core_context).timestamp > messages[1].timestamp
    /\ ret[1] = core_context[1].content
    /\ Last(ret) = Last(messages).content

\* C6: core entries are never evicted: add_message and
\* clear_dynamic_context leave core_context and core_tokens unchanged and
\* return no core entry, and every core message keeps its position in
\* get_current_context() through every operation.
C6_CoreNeverEvicted ==
    [][/\ op' \in {"add_message", "clear_dynamic_context"} =>
            /\ core_context' = core_context
            /\ core_tokens' = core_tokens
            /\ \A i \in 1..Len(ret') : ~ret'[i].is_core
       /\ \A i \in 1..Len(core_context) :
            /\ i <= Len(current_context(core_context', messages'))
            /\ current_context(core_context', messages')[i]
                   = core_context[i].content]_vars

\* a call that returned evicted or cleared entries while core entries exist
C6_Witness ==
    /\ op \in {"add_message", "clear_dynamic_context"}
    /\ ret # <<>>
    /\ core_context # <<>>

\* C7: clear_dynamic_context removes all dynamic entries and returns
\* exactly them, oldest first; get_token_stats() then yields
\* dynamic_tokens = 0 and total_tokens = core_tokens.
C7_ClearDynamic ==
    [][op' = "clear_dynamic_context" =>
        /\ ret' = messages
        /\ messages' = <<>>
        /\ LET stats == token_stats(max_tokens', core_tokens', messages')
           IN /\ stats.dynamic_tokens = 0
              /\ stats.total_tokens = core_tokens']_vars

\* clear_dynamic_context returned two entries with a non-empty core
C7_Witness ==
    /\ op = "clear_dynamic_context"
    /\ Len(ret) >= 2
    /\ ret[1].timestamp < ret[2].timestamp
    /\ messages = <<>>
    /\ core_tokens > 0

\* C8 as stated: after every add_message call the core tokens plus the
\* dynamic tokens are at most max_tokens.
C8_TotalWithinBudget ==
    op = "add_message" =>
        SumTokens(core_context) + SumTokens(messages) <= max_tokens

\* C8 amended: after every add_message call the core tokens plus the
\* dynamic tokens are at most max_tokens, unless the message just added
\* alone exceeds max_tokens minus the core tokens, and then it is the only
\* dynamic entry.
C8_TotalWithinBudgetUnlessOversized ==
    op = "add_message" =>
        \/ SumTokens(core_context) + SumTokens(messages) <= max_tokens
        \/ /\ Len(messages) = 1
           /\ SumTokens(core_context) + messages[1].tokens > max_tokens

\* an add_message call that evicted entries and still ended over the
\* budget, the core context fitting in the budget
C8_Witness ==
    /\ op = "add_message"
    /\ ret # <<>>
    /\ core_context # <<>>
    /\ SumTokens(core_context) <= max_tokens
    /\ SumTokens(core_context) + SumTokens(messages) > max_tokens

\* C9: get_token_stats() reflects the stored entries: core_tokens is the
\* sum of the core entries' tokens, dynamic_tokens the sum of the dynamic
\* entries' tokens, total_tokens their sum and available_tokens =
\* max_tokens - total_tokens.
C9_StatsReflectEntries ==
    LET stats == token_stats(max_tokens, core_tokens, messages) IN
    /\ stats.core_tokens = SumTokens(core_context)
    /\ stats.dynamic_tokens = SumFrom(messages, 1)
    /\ stats.total_tokens = SumTokens(core_context \o messages)
    /\ stats.available_tokens = max_tokens - SumTokens(core_context \o messages)
    /\ op = "get_token_stats" => ret = stats

\* get_token_stats() called over budget, with core and dynamic entries
C9_Witness ==
    /\ op = "get_token_stats"
    /\ Len(core_context) >= 2
    /\ messages # <<>>
    /\ ret.core_tokens > 0
    /\ ret.dynamic_tokens > 0
    /\ ret.available_tokens < 0

\* C10 as stated: when the core context alone exceeds max_tokens after the
\* constructor or add_core_message, the call surfaces an error to its
\* caller (and the core entries are kept).
C10_CoreOverBudgetSurfaced ==
    (/\ op \in {"__init__", "add_core_message"}
     /\ SumTokens(core_context) > max_tokens)
    => exc # "None"

\* C20: add_core_message performs no eviction: it appends exactly one entry
\* with is_core = TRUE to the end of core_context, adds that entry's token
\* count to core_tokens and leaves the dynamic entries unchanged, also when
\* the total then exceeds max_tokens.
C20_CoreInsertNoEviction ==
    [][op' = "add_core_message" =>
        /\ Len(core_context') = Len(core_context) + 1
        /\ SubSeq(core_context', 1, Len(core_context)) = core_context
        /\ Last(core_context').is_core
        /\ Last(core_context').content = arg'
        /\ core_tokens' = core_tokens + Last(core_context').tokens
        /\ messages' = messages]_vars

\* add_core_message pushed the total over max_tokens while dynamic entries
\* that fitted before the call are all still there
C20_Witness ==
    /\ op = "add_core_message"
    /\ Len(messages) >= 2
    /\ core_tokens + SumTokens(messages) > max_tokens
    /\ core_tokens - Last(core_context).tokens + SumTokens(messages)
           <= max_tokens

----------------------------------------------------------------------------
\* Provider adapters: providers/openai_provider.py, providers/groq_provider.py

\* the truth value of None, a str, a list or a base64 text
Truthy(v) ==
    /\ v.kind # "None"
    /\ v.kind = "str" => v.text # <<>>
    /\ v.kind = "list" => v.blocks # <<>>
    /\ v.kind = "b64" => v.data # <<>>

RECURSIVE join(_)
\* "\n".join(text_parts)
join(text_parts) ==
    IF text_parts = <<>> THEN <<>>
    ELSE IF Len(text_parts) = 1 THEN text_parts[1]
    ELSE text_parts[1] \o <<"\n">> \o join(Tail(text_parts))

\* f"Tool result: {text}"
tool_result_line(text) == <<"Tool result: ">> \o text

\* what a call returns or raises
Returned(value) == [value |-> value, exc |-> "None"]

Raised(exception) == [value |-> NoneVal, exc |-> exception]

RECURSIVE OpenAIProvider_nested_text_parts(_)
\* OpenAIProvider.prepare_messages: the inner loop over the blocks of a tool_result
OpenAIProvider_nested_text_parts(blocks) ==
    IF blocks = <<>> THEN <<>>
    ELSE (IF blocks[1].type = "text"
          THEN <<tool_result_line(blocks[1].text)>> ELSE <<>>)
         \o OpenAIProvider_nested_text_parts(Tail(blocks))

\* the tool results appended without the "Tool result: " prefix
OpenAIProvider_block_text_parts_no_prefix(block) ==
    IF block.type = "text" THEN <<block.text>>
    ELSE IF block.type = "tool_result" THEN
        IF block.content.kind = "str"
        THEN <<block.content.text>>
        ELSE IF block.content.kind = "list"
        THEN OpenAIProvider_nested_text_parts(block.content.blocks)
        ELSE <<>>
    ELSE <<>>

\* OpenAIProvider.prepare_messages: the parts one block appends to text_parts
OpenAIProvider_block_text_parts(block) ==
    IF block.type = "text" THEN <<block.text>>
    ELSE IF block.type = "tool_result" THEN
        IF block.content.kind = "str"
        THEN <<tool_result_line(block.content.text)>>
        ELSE IF block.content.kind = "list"
        THEN OpenAIProvider_nested_text_parts(block.content.blocks)
        ELSE <<>>
    ELSE <<>>

RECURSIVE OpenAIProvider_text_parts(_)
\* OpenAIProvider.prepare_messages: the loop over the blocks of one message
OpenAIProvider_text_parts(blocks) ==
    IF blocks = <<>> THEN <<>>
    ELSE OpenAIProvider_block_text_parts(blocks[1]) \o OpenAIProvider_text_parts(Tail(blocks))

\* OpenAIProvider.prepare_messages: the body of the loop, one prepared message
OpenAIProvider_prepare_message(message) ==
    [role |-> message.role,
     content |-> IF message.content.kind = "list"
                 THEN Str(join(OpenAIProvider_text_parts(message.content.blocks)))
                 ELSE message.content]

\* OpenAIProvider.prepare_messages
OpenAIProvider_prepare_messages(msgs) ==
    [i \in 1..Len(msgs) |-> OpenAIProvider_prepare_message(msgs[i])]

\* OpenAIProvider.prepare_tools: the body of the loop, one prepared tool
OpenAIProvider_prepare_tool(tool) ==
    [type |-> "function",
     function |->
        [name |-> tool.name,
         description |-> tool.description,
         parameters |->
            [type |-> "object",
             properties |-> tool.parameters.properties,
             required |-> IF "required" \in DOMAIN tool.parameters
                          THEN tool.parameters.required ELSE <<>>]]]

\* OpenAIProvider.prepare_tools
OpenAIProvider_prepare_tools(tools) ==
    [i \in 1..Len(tools) |-> OpenAIProvider_prepare_tool(tools[i])]

\* OpenAIProvider.parse_response: the tool_use block built from one tool call
OpenAIProvider_tool_use(tool_call) ==
    [type |-> "tool_use",
     name |-> tool_call.function.name,
     id |-> tool_call.id,
     input |-> tool_call.function.arguments]

\* the tool_use blocks appended before the text block
OpenAIProvider_parsed_content_tools_first(content, tool_calls) ==
    (IF Truthy(tool_calls)
     THEN [i \in 1..Len(tool_calls.blocks) |->
              OpenAIProvider_tool_use(tool_calls.blocks[i])]
     ELSE <<>>)
    \o (IF Truthy(content) THEN <<TextBlock(content.text)>> ELSE <<>>)

\* OpenAIProvider.parse_response: the content list built from the message's content
\* and its tool calls
OpenAIProvider_parsed_content(content, tool_calls) ==
    (IF Truthy(content) THEN <<TextBlock(content.text)>> ELSE <<>>)
    \o (IF Truthy(tool_calls)
        THEN [i \in 1..Len(tool_calls.blocks) |->
                 OpenAIProvider_tool_use(tool_calls.blocks[i])]
        ELSE <<>>)

\* OpenAIProvider.parse_response: message.tool_calls is an attribute access
OpenAIProvider_parse_response(response) ==
    LET message == response.choices[1].message IN
    IF "tool_calls" \notin DOMAIN message THEN Raised("AttributeError")
    ELSE Returned(Message("assistant",
             List(OpenAIProvider_parsed_content(message.content,
                                                message.tool_calls))))

\* OpenAIProvider.create_completion up to the await: the request sent to the
\* backend
OpenAIProvider_create_completion_request(msgs, tools, model, max_tok, kwargs) ==
    [model |-> model, messages |-> OpenAIProvider_prepare_messages(msgs),
     tools |-> OpenAIProvider_prepare_tools(tools), max_tokens |-> max_tok,
     kwargs |-> kwargs]

\* a create_completion that repeats a failed request once
OpenAIProvider_create_completion_retry(msgs, tools, model, max_tok, kwargs, outcome) ==
    LET prepared_messages == OpenAIProvider_prepare_messages(msgs)
        prepared_tools == OpenAIProvider_prepare_tools(tools)
        request == [model |-> model, messages |-> prepared_messages,
                    tools |-> prepared_tools, max_tokens |-> max_tok,
                    kwargs |-> kwargs]
    IN IF outcome.ok
       THEN LET r == OpenAIProvider_parse_response(outcome.response) IN
            [requests |-> <<request>>, parsed |-> <<outcome.response>>,
             value |-> r.value, exc |-> r.exc]
       ELSE [requests |-> <<request, request>>, parsed |-> <<>>,
             value |-> NoneVal, exc |-> outcome.error]

\* a create_completion that swallows a backend error and returns an empty
\* reply
OpenAIProvider_create_completion_fallback(msgs, tools, model, max_tok, kwargs, outcome) ==
    LET prepared_messages == OpenAIProvider_prepare_messages(msgs)
        prepared_tools == OpenAIProvider_prepare_tools(tools)
        request == [model |-> model, messages |-> prepared_messages,
                    tools |-> prepared_tools, max_tokens |-> max_tok,
                    kwargs |-> kwargs]
    IN IF outcome.ok
       THEN LET r == OpenAIProvider_parse_response(outcome.response) IN
            [requests |-> <<request>>, parsed |-> <<outcome.response>>,
             value |-> r.value, exc |-> r.exc]
       ELSE [requests |-> <<request>>, parsed |-> <<>>,
             value |-> Message("assistant", List(<<>>)), exc |-> "None"]

\* OpenAIProvider.create_completion, the whole call: `outcome` is what the
\* backend does with the request, a response or an exception raised at the
\* await
OpenAIProvider_create_completion(msgs, tools, model, max_tok, kwargs, outcome) ==
    LET request == OpenAIProvider_create_completion_request(msgs, tools, model,
                                                max_tok, kwargs)
    IN IF outcome.ok
       THEN LET r == OpenAIProvider_parse_response(outcome.response) IN
            [requests |-> <<request>>, parsed |-> <<outcome.response>>,
             value |-> r.value, exc |-> r.exc]
       ELSE [requests |-> <<request>>, parsed |-> <<>>,
             value |-> NoneVal, exc |-> outcome.error]

RECURSIVE GroqProvider_nested_text_parts(_)
\* GroqProvider.prepare_messages: the inner loop over the blocks of a tool_result
GroqProvider_nested_text_parts(blocks) ==
    IF blocks = <<>> THEN <<>>
    ELSE (IF blocks[1].type = "text"
          THEN <<tool_result_line(blocks[1].text)>> ELSE <<>>)
         \o GroqProvider_nested_text_parts(Tail(blocks))

\* a tool_use block appended as an empty line instead of skipped
GroqProvider_block_text_parts_blank_tool_use(block) ==
    IF block.type = "text" THEN <<block.text>>
    ELSE IF block.type = "tool_result" THEN
        IF block.content.kind = "str"
        THEN <<tool_result_line(block.content.text)>>
        ELSE IF block.content.kind = "list"
        THEN GroqProvider_nested_text_parts(block.content.blocks)
        ELSE <<>>
    ELSE IF block.type = "tool_use" THEN << <<>> >>
    ELSE <<>>

\* GroqProvider.prepare_messages: the parts one block appends to text_parts
GroqProvider_block_text_parts(block) ==
    IF block.type = "text" THEN <<block.text>>
    ELSE IF block.type = "tool_result" THEN
        IF block.content.kind = "str"
        THEN <<tool_result_line(block.content.text)>>
        ELSE IF block.content.kind = "list"
        THEN GroqProvider_nested_text_parts(block.content.blocks)
        ELSE <<>>
    ELSE <<>>

RECURSIVE GroqProvider_text_parts(_)
\* GroqProvider.prepare_messages: the loop over the blocks of one message
GroqProvider_text_parts(blocks) ==
    IF blocks = <<>> THEN <<>>
    ELSE GroqProvider_block_text_parts(blocks[1]) \o GroqProvider_text_parts(Tail(blocks))

\* GroqProvider.prepare_messages: the body of the loop, one prepared message
GroqProvider_prepare_message(message) ==
    [role |-> message.role,
     content |-> IF message.content.kind = "list"
                 THEN Str(join(GroqProvider_text_parts(message.content.blocks)))
                 ELSE message.content]

\* GroqProvider.prepare_messages
GroqProvider_prepare_messages(msgs) ==
    [i \in 1..Len(msgs) |-> GroqProvider_prepare_message(msgs[i])]

\* tool["parameters"].get("required") without the default
GroqProvider_prepare_tool_no_default(tool) ==
    [type |-> "function",
     function |->
        [name |-> tool.name,
         description |-> tool.description,
         parameters |->
            [type |-> "object",
             properties |-> tool.parameters.properties,
             required |-> IF "required" \in DOMAIN tool.parameters
                          THEN tool.parameters.required ELSE NoneVal]]]

\* GroqProvider.prepare_tools: the body of the loop, one prepared tool
GroqProvider_prepare_tool(tool) ==
    [type |-> "function",
     function |->
        [name |-> tool.name,
         description |-> tool.description,
         parameters |->
            [type |-> "object",
             properties |-> tool.parameters.properties,
             required |-> IF "required" \in DOMAIN tool.parameters
                          THEN tool.parameters.required ELSE <<>>]]]

\* GroqProvider.prepare_tools
GroqProvider_prepare_tools(tools) ==
    [i \in 1..Len(tools) |-> GroqProvider_prepare_tool(tools[i])]

\* the tool call's id left out of the tool_use block
GroqProvider_tool_use_without_id(tool_call) ==
    [type |-> "tool_use",
     name |-> tool_call.function.name,
     id |-> <<>>,
     input |-> tool_call.function.arguments]

\* GroqProvider.parse_response: the tool_use block built from one tool call
GroqProvider_tool_use(tool_call) ==
    [type |-> "tool_use",
     name |-> tool_call.function.name,
     id |-> tool_call.id,
     input |-> tool_call.function.arguments]

\* GroqProvider.parse_response: the content list built from the message's content
\* and its tool calls
GroqProvider_parsed_content(content, tool_calls) ==
    (IF Truthy(content) THEN <<TextBlock(content.text)>> ELSE <<>>)
    \o (IF Truthy(tool_calls)
        THEN [i \in 1..Len(tool_calls.blocks) |->
                 GroqProvider_tool_use(tool_calls.blocks[i])]
        ELSE <<>>)

\* GroqProvider.parse_response: getattr(message, 'tool_calls', None)
GroqProvider_parse_response(response) ==
    LET message == response.choices[1].message
        tool_calls == IF "tool_calls" \in DOMAIN message
                      THEN message.tool_calls ELSE NoneVal
    IN Returned(Message("assistant",
           List(GroqProvider_parsed_content(message.content, tool_calls))))

\* GroqProvider.create_completion up to the await: the request sent to the
\* backend
GroqProvider_create_completion_request(msgs, tools, model, max_tok, kwargs) ==
    [model |-> model, messages |-> GroqProvider_prepare_messages(msgs),
     tools |-> GroqProvider_prepare_tools(tools), max_tokens |-> max_tok,
     kwargs |-> kwargs]

\* GroqProvider.create_completion, the whole call: `outcome` is what the
\* backend does with the request, a response or an exception raised at the
\* await
GroqProvider_create_completion(msgs, tools, model, max_tok, kwargs, outcome) ==
    LET request == GroqProvider_create_completion_request(msgs, tools, model,
                                                max_tok, kwargs)
    IN IF outcome.ok
       THEN LET r == GroqProvider_parse_response(outcome.response) IN
            [requests |-> <<request>>, parsed |-> <<outcome.response>>,
             value |-> r.value, exc |-> r.exc]
       ELSE [requests |-> <<request>>, parsed |-> <<>>,
             value |-> NoneVal, exc |-> outcome.error]

----------------------------------------------------------------------------
\* The provider functions and _count_tokens applied to bounded inputs

\* all sequences over S of length 0, 1 or 2
SeqsUpTo2(S) ==
    {<<>>} \cup {<<x>> : x \in S} \cup {<<x, y>> : x \in S, y \in S}

Providers == {"OpenAIProvider", "GroqProvider"}

Hello == Message("user", Str(<<"hello">>))

Running == Message("assistant",
    List(<<TextBlock(<<"running">>),
           ToolUseBlock(<<"bash">>, <<"id1">>, <<"{}">>)>>))

Result == Message("user",
    List(<<ToolResultBlock(<<"id1">>, Str(<<"ok">>)),
           TextBlock(<<"next">>)>>))

Nested == Message("user",
    List(<<TextBlock(<<"see">>),
           ToolResultBlock(<<"id2">>,
               List(<<TextBlock(<<"a">>), [type |-> "image"],
                      TextBlock(<<"b">>)>>))>>))

ToolOnly == Message("assistant",
    List(<<ToolUseBlock(<<"bash">>, <<"id2">>, <<"{}">>)>>))

NoBlocks == Message("user", List(<<>>))

\* the canonical message lists prepare_messages is called with
MessageLists ==
    SeqsUpTo2({Hello, Running, Result, Nested, ToolOnly, NoBlocks})

\* a tool spec without a "required" key
ToolRun ==
    [name |-> <<"run">>, description |-> <<"x">>,
     parameters |-> [properties |-> [a |-> [type |-> "string"]]]]

ToolRead ==
    [name |-> <<"read">>, description |-> <<"reads", "a", "file">>,
     parameters |-> [properties |-> [path |-> [type |-> "string"],
                                     n |-> [type |-> "integer"]],
                     required |-> <<"path">>]]

ToolNoParams ==
    [name |-> <<"now">>, description |-> <<>>,
     parameters |-> [properties |-> [a |-> [type |-> "string"]],
                     required |-> <<>>]]

\* the tool-spec lists prepare_tools is called with
ToolLists == SeqsUpTo2({ToolRun, ToolRead, ToolNoParams})

ToolCall(id, name, arguments) ==
    [id |-> id, function |-> [name |-> name, arguments |-> arguments]]

CallBash == ToolCall(<<"call_1">>, <<"bash">>, <<"{", "cmd", ":", "ls", "}">>)

CallRead == ToolCall(<<"call_2">>, <<"read">>, <<"{}">>)

\* the contents a backend message carries: None, "" or text
ResponseContents == {NoneVal, Str(<<>>), Str(<<"hello">>)}

\* the tool_calls a backend message carries: None or a list
ResponseToolCalls ==
    {NoneVal} \cup {List(tcs) : tcs \in SeqsUpTo2({CallBash, CallRead})}

Response(message) == [choices |-> <<[message |-> message]>>]

\* the backend responses: the message has a tool_calls field or has none
Responses ==
    {Response([content |-> c, tool_calls |-> tcs]) :
        c \in ResponseContents, tcs \in ResponseToolCalls}
    \cup {Response([content |-> c]) : c \in ResponseContents}

\* what the backend does with a request
Outcomes ==
    {[ok |-> TRUE, response |-> r] :
        r \in {Response([content |-> Str(<<"hello">>), tool_calls |-> NoneVal]),
               Response([content |-> NoneVal,
                         tool_calls |-> List(<<CallBash>>)]),
               Response([content |-> Str(<<"hello">>),
                         tool_calls |-> List(<<CallRead, CallBash>>)])}}
    \cup {[ok |-> FALSE, error |-> e] :
        e \in {"APIError", "TimeoutError", "CancelledError"}}

Models == {"gpt-4-turbo-preview", "mixtral-8x7b-32768"}

MaxTokChoices == {1024, 4096}

\* **kwargs as a set of (name, value) pairs
KwargsChoices == {{}, {<<"temperature", 0>>}}

\* the blocks _count_tokens is applied to
Blocks ==
    {TextBlock(Text(5)),
     ToolUseBlock(<<"bash">>, <<"id1">>, <<"{}">>),
     ToolResultBlock(<<"id1">>, Str(Text(2))),
     ToolResultBlock(<<"id1">>, List(<<TextBlock(Text(3))>>)),
     [type |-> "image"],
     [str |-> Text(3)]}

BlockLists == SeqsUpTo2(Blocks)

prepare_messages(provider, msgs) ==
    IF provider = "OpenAIProvider" THEN OpenAIProvider_prepare_messages(msgs)
    ELSE GroqProvider_prepare_messages(msgs)

prepare_tools(provider, tools) ==
    IF provider = "OpenAIProvider" THEN OpenAIProvider_prepare_tools(tools)
    ELSE GroqProvider_prepare_tools(tools)

parse_response(provider, response) ==
    IF provider = "OpenAIProvider" THEN OpenAIProvider_parse_response(response)
    ELSE GroqProvider_parse_response(response)

create_completion(provider, msgs, tools, model, max_tok, kwargs, outcome) ==
    IF provider = "OpenAIProvider"
    THEN OpenAIProvider_create_completion(msgs, tools, model, max_tok, kwargs,
                                          outcome)
    ELSE GroqProvider_create_completion(msgs, tools, model, max_tok, kwargs,
                                        outcome)

create_completion_request(provider, msgs, tools, model, max_tok, kwargs) ==
    IF provider = "OpenAIProvider"
    THEN OpenAIProvider_create_completion_request(msgs, tools, model, max_tok,
                                                  kwargs)
    ELSE GroqProvider_create_completion_request(msgs, tools, model, max_tok,
                                                kwargs)

\* a create_completion call suspended at its await: the request is with
\* the backend, nothing is parsed or returned yet
PendingCall(provider, input) ==
    [provider |-> provider, fn |-> "create_completion", input |-> input,
     pending |-> TRUE,
     requests |-> <<create_completion_request(provider, input.messages,
                        input.tools, input.model, input.max_tokens,
                        input.kwargs)>>,
     parsed |-> <<>>, value |-> NoneVal, exc |-> "None"]

\* the call after the backend answered or the await raised
FinishedCall(c, outcome) ==
    LET r == create_completion(c.provider, c.input.messages, c.input.tools,
                               c.input.model, c.input.max_tokens,
                               c.input.kwargs, outcome)
    IN [provider |-> c.provider, fn |-> "create_completion",
        input |-> c.input, pending |-> FALSE, outcome |-> outcome,
        requests |-> r.requests, parsed |-> r.parsed,
        value |-> r.value, exc |-> r.exc]

\* a create_completion call is suspended at its await
Pending == call.fn = "create_completion" /\ call.pending

\* no call made yet; each behaviour applies one function to one input
InitProvider ==
    /\ Init
    /\ max_tokens = 100
    /\ core_context = <<>>

\* a call of prepare_messages
call_prepare_messages ==
    /\ call.fn = "None"
    /\ \E provider \in Providers, msgs \in MessageLists :
        call' = [provider |-> provider, fn |-> "prepare_messages",
                 input |-> msgs,
                 value |-> prepare_messages(provider, msgs), exc |-> "None"]
    /\ UNCHANGED <<state, now, op, arg, ret, exc, threads, logger, history>>

\* a call of prepare_tools
call_prepare_tools ==
    /\ call.fn = "None"
    /\ \E provider \in Providers, tools \in ToolLists :
        call' = [provider |-> provider, fn |-> "prepare_tools",
                 input |-> tools,
                 value |-> prepare_tools(provider, tools), exc |-> "None"]
    /\ UNCHANGED <<state, now, op, arg, ret, exc, threads, logger, history>>

\* a call of parse_response
call_parse_response ==
    /\ call.fn = "None"
    /\ \E provider \in Providers, response \in Responses :
        LET r == parse_response(provider, response) IN
        call' = [provider |-> provider, fn |-> "parse_response",
                 input |-> response, value |-> r.value, exc |-> r.exc]
    /\ UNCHANGED <<state, now, op, arg, ret, exc, threads, logger, history>>

\* a call of create_completion runs to its await: the request is issued
\* and the coroutine is suspended
call_create_completion ==
    /\ call.fn = "None"
    /\ \E provider \in Providers,
          msgs \in {<<Hello>>, <<Hello, Running, Result>>},
          tools \in {<<>>, <<ToolRun, ToolRead>>},
          model \in Models, max_tok \in MaxTokChoices,
          kwargs \in KwargsChoices :
        call' = PendingCall(provider,
                    [messages |-> msgs, tools |-> tools, model |-> model,
                     max_tokens |-> max_tok, kwargs |-> kwargs])
    /\ UNCHANGED <<state, now, op, arg, ret, exc, threads, logger, history>>

\* the await ends with the backend's outcome: the response is parsed and
\* returned, or the exception leaves the call
call_create_completion_resume ==
    /\ Pending
    /\ \E outcome \in Outcomes : call' = FinishedCall(call, outcome)
    /\ UNCHANGED <<state, now, op, arg, ret, exc, threads, logger, history>>

\* _count_tokens applied to two content lists and to their concatenation
call_count_tokens ==
    /\ call.fn = "None"
    /\ \E a \in BlockLists, b \in BlockLists :
        call' = [fn |-> "_count_tokens", input |-> <<a, b>>,
                 value |-> <<_count_tokens(Message("user", List(a))),
                             _count_tokens(Message("user", List(b))),
                             _count_tokens(Message("user", List(a \o b)))>>,
                 exc |-> "None"]
    /\ UNCHANGED <<state, now, op, arg, ret, exc, threads, logger, history>>

NextProvider ==
    \/ call_prepare_messages
    \/ call_prepare_tools
    \/ call_parse_response
    \/ call_create_completion
    \/ call_create_completion_resume
    \/ call_count_tokens

SpecProvider == InitProvider /\ [][NextProvider]_vars

\* C13: parse_response returns role "assistant" and a block list made of
\* one text block iff the backend reported text (a non-empty string),
\* followed by one tool_use block per reported tool call, in the backend's
\* order, each with that call's name, id and raw arguments; a response with
\* text "hello" and no tool calls yields exactly one text block "hello".
C13_ParseResponse ==
    call.fn = "parse_response" =>
        LET message == call.input.choices[1].message
            has_field == "tool_calls" \in DOMAIN message
            has_text == /\ message.content.kind = "str"
                        /\ Len(message.content.text) > 0
            calls == IF has_field /\ message.tool_calls.kind = "list"
                     THEN message.tool_calls.blocks ELSE <<>>
            off == IF has_text THEN 1 ELSE 0
        IN /\ has_field => call.exc = "None"
           /\ call.exc = "None" =>
               LET blocks == call.value.content.blocks IN
               /\ call.value.role = "assistant"
               /\ DOMAIN call.value = {"role", "content"}
               /\ call.value.content.kind = "list"
               /\ Len(blocks) = off + Len(calls)
               /\ has_text =>
                      blocks[1] = [type |-> "text",
                                   text |-> message.content.text]
               /\ \A i \in 1..Len(calls) :
                      blocks[off + i] =
                          [type |-> "tool_use",
                           name |-> calls[i].function.name,
                           id |-> calls[i].id,
                           input |-> calls[i].function.arguments]
               /\ (message.content = Str(<<"hello">>) /\ calls = <<>>) =>
                      blocks = <<[type |-> "text", text |-> <<"hello">>]>>

\* a response with text and two tool calls, parsed by OpenAIProvider
C13_Witness ==
    /\ call.fn = "parse_response"
    /\ call.provider = "OpenAIProvider"
    /\ call.exc = "None"
    /\ call.input.choices[1].message.tool_calls = List(<<CallRead, CallBash>>)
    /\ Len(call.value.content.blocks) = 3
    /\ call.value.content.blocks[1].type = "text"
    /\ call.value.content.blocks[2].id = <<"call_2">>

\* the lines a block contributes to the flattened text
ExpectedLines(block) ==
    IF block.type = "text" THEN <<block.text>>
    ELSE IF block.type = "tool_result" /\ block.content.kind = "str"
    THEN <<<<"Tool result: ">> \o block.content.text>>
    ELSE IF block.type = "tool_result" /\ block.content.kind = "list"
    THEN LET inner == block.content.blocks
             texts == SelectSeq(inner, LAMBDA b : b.type = "text")
         IN [i \in 1..Len(texts) |-> <<"Tool result: ">> \o texts[i].text]
    ELSE <<>>

RECURSIVE ExpectedFlat(_)
\* the lines of the blocks, last block first, each line but the first of
\* the text preceded by a newline
ExpectedFlat(blocks) ==
    IF blocks = <<>> THEN <<>>
    ELSE LET n == Len(blocks)
             front == ExpectedFlat(SubSeq(blocks, 1, n - 1))
             lines == ExpectedLines(blocks[n])
             Glue[k \in 0..Len(lines)] ==
                 IF k = 0 THEN front
                 ELSE IF k = 1 /\ \A j \in 1..(n - 1) :
                                      ExpectedLines(blocks[j]) = <<>>
                 THEN lines[1]
                 ELSE Glue[k - 1] \o <<"\n">> \o lines[k]
         IN Glue[Len(lines)]

\* C14: prepare_messages returns one backend message per canonical
\* message, in order and with the role unchanged; string content passes
\* through; a block list is flattened to one string: each text block gives
\* its text, each tool_result a line "Tool result: " plus the result's text
\* (one line per text block of a nested list), joined with newlines.
C14_PrepareMessages ==
    call.fn = "prepare_messages" =>
        /\ call.exc = "None"
        /\ Len(call.value) = Len(call.input)
        /\ \A i \in 1..Len(call.input) :
            LET m == call.input[i]
                out == call.value[i]
            IN /\ DOMAIN out = {"role", "content"}
               /\ out.role = m.role
               /\ m.content.kind = "str" => out.content = m.content
               /\ m.content.kind = "list" =>
                      /\ out.content.kind = "str"
                      /\ out.content.text = ExpectedFlat(m.content.blocks)

\* text, a string tool result and a nested tool result flattened in order
C14_Witness ==
    /\ call.fn = "prepare_messages"
    /\ call.input = <<Result, Nested>>
    /\ call.value[1].content.text
           = <<"Tool result: ", "ok", "\n", "next">>
    /\ call.value[2].content.text
           = <<"see", "\n", "Tool result: ", "a", "\n", "Tool result: ", "b">>

\* C15: prepare_tools maps each tool spec, in order and one-to-one, to
\* {type: "function", function: {name, description, parameters: {type:
\* "object", properties, required}}}, with required the input's list or the
\* empty list when the input has no "required" key.
C15_PrepareTools ==
    call.fn = "prepare_tools" =>
        /\ call.exc = "None"
        /\ Len(call.value) = Len(call.input)
        /\ \A i \in 1..Len(call.input) :
            LET tool == call.input[i]
                out == call.value[i]
            IN /\ DOMAIN out = {"type", "function"}
               /\ out.type = "function"
               /\ DOMAIN out.function = {"name", "description", "parameters"}
               /\ out.function.name = tool.name
               /\ out.function.description = tool.description
               /\ DOMAIN out.function.parameters
                      = {"type", "properties", "required"}
               /\ out.function.parameters.type = "object"
               /\ out.function.parameters.properties
                      = tool.parameters.properties
               /\ "required" \in DOMAIN tool.parameters =>
                      out.function.parameters.required
                          = tool.parameters.required
               /\ "required" \notin DOMAIN tool.parameters =>
                      out.function.parameters.required = <<>>

\* the scenario's tool without a "required" key, after one that has it
C15_Witness ==
    /\ call.fn = "prepare_tools"
    /\ call.provider = "GroqProvider"
    /\ call.input = <<ToolRead, ToolRun>>
    /\ call.value[1].function.parameters.required = <<"path">>
    /\ call.value[2].function.name = <<"run">>
    /\ call.value[2].function.parameters.required = <<>>

\* C16: each create_completion call issues exactly one backend request,
\* made of the outputs of prepare_messages and prepare_tools and the given
\* model and max_tokens; on success the response goes through
\* parse_response and that result is returned; on a backend error the
\* error propagates unchanged: no second request, no parse_response call.
C16_CreateCompletion ==
    call.fn = "create_completion" =>
        /\ Len(call.requests) = 1
        /\ call.pending => call.parsed = <<>>
        /\ call.requests[1].model = call.input.model
        /\ call.requests[1].max_tokens = call.input.max_tokens
        /\ call.requests[1].messages
               = prepare_messages(call.provider, call.input.messages)
        /\ call.requests[1].tools
               = prepare_tools(call.provider, call.input.tools)
        /\ (~call.pending /\ call.outcome.ok) =>
               /\ call.parsed = <<call.outcome.response>>
               /\ call.exc = "None"
               /\ call.value
                      = parse_response(call.provider,
                                       call.outcome.response).value
        /\ (~call.pending /\ ~call.outcome.ok) =>
               /\ call.parsed = <<>>
               /\ call.exc = call.outcome.error
               /\ call.value = NoneVal

\* a create_completion call whose backend request timed out
C16_Witness ==
    /\ call.fn = "create_completion"
    /\ call.provider = "OpenAIProvider"
    /\ ~call.pending
    /\ ~call.outcome.ok
    /\ call.exc = "TimeoutError"
    /\ Len(call.requests) = 1
    /\ Len(call.requests[1].messages) = 3

\* the count of one block taken alone
ExpectedBlockCount(block) ==
    IF DOMAIN block = {"str"} THEN Len(block.str)
    ELSE IF block.type = "text" THEN Len(block.text)
    ELSE IF block.type = "tool_use" THEN Len(json_dumps(block))
    ELSE IF block.type = "tool_result" THEN
        IF block.content.kind = "str" THEN Len(block.content.text)
        ELSE Len(json_dumps(block))
    ELSE 0

\* C18: _count_tokens of a block list is the sum of the counts of its
\* blocks taken alone, so the count of a concatenation of two block lists
\* is the sum of their counts, and it is never negative.
C18_CountAdditive ==
    call.fn = "_count_tokens" =>
        LET a == call.input[1]
            b == call.input[2]
            Count(blocks) ==
                IF Len(blocks) = 0 THEN 0
                ELSE IF Len(blocks) = 1 THEN ExpectedBlockCount(blocks[1])
                ELSE ExpectedBlockCount(blocks[1])
                     + ExpectedBlockCount(blocks[2])
        IN /\ call.value[1] = Count(a)
           /\ call.value[2] = Count(b)
           /\ call.value[3] = call.value[1] + call.value[2]
           /\ call.value[1] >= 0

\* a block list concatenated with itself: the repeated blocks count twice
C18_Witness ==
    /\ call.fn = "_count_tokens"
    /\ call.input[1] = call.input[2]
    /\ Len(call.input[1]) = 2
    /\ call.input[1][1] = ToolUseBlock(<<"bash">>, <<"id1">>, <<"{}">>)
    /\ call.input[1][2] = TextBlock(Text(5))
    /\ call.value[3] = 2 * call.value[1]
    /\ call.value[1] > 0

----------------------------------------------------------------------------
\* The agent loop around one ContextManager and one provider

\* OpenAIProvider.get_default_model, GroqProvider.get_default_model
get_default_model(provider) ==
    IF provider = "OpenAIProvider" THEN "gpt-4-turbo-preview"
    ELSE "mixtral-8x7b-32768"

\* a session: a manager with canonical core messages, no completion yet
InitAgent ==
    /\ Init
    /\ arg \in {<<>>, <<Sys20>>}

\* One turn of the agent loop, up to the await: the snapshot of the
\* context goes to the provider and the loop waits for the reply.
agent_turn(provider) ==
    /\ ~Pending
    /\ now < MaxClock
    /\ LET context == current_context(core_context, messages) IN
       call' = PendingCall(provider,
                   [messages |-> context, tools |-> <<ToolRun>>,
                    model |-> get_default_model(provider),
                    max_tokens |-> 4096, kwargs |-> {}])
    /\ UNCHANGED <<state, now, op, arg, ret, exc, threads, logger, history>>

\* The rest of the turn: the reply is added to the context once
\* create_completion has returned, and an exception of the call ends the
\* turn.
agent_turn_resume(outcome) ==
    /\ Pending
    /\ LET c == FinishedCall(call, outcome) IN
       /\ call' = c
       /\ IF c.exc = "None"
          THEN LET tokens == _count_tokens(c.value)
                   e == evict(messages, SumTokens(messages), tokens,
                              max_tokens - core_tokens, <<>>)
               IN /\ messages' = append_new(e.messages, c.value, tokens, now)
                  /\ ret' = e.removed
                  /\ now' = now + 1
                  /\ op' = "add_message"
                  /\ arg' = c.value
          ELSE UNCHANGED <<messages, ret, now, op, arg>>
    /\ UNCHANGED <<max_tokens, current_tokens, core_context, core_tokens,
                   exc, threads, logger, history>>

\* the loop is one task: it adds no message while it waits for a reply
NextAgent ==
    \/ \E message \in {Hello, User30, Asst50} :
           ~Pending /\ add_message(message)
    \/ \E provider \in Providers : agent_turn(provider)
    \/ \E outcome \in Outcomes : agent_turn_resume(outcome)

SpecAgent == InitAgent /\ [][NextAgent]_vars

\* C17: a create_completion call that is cancelled, times out or fails
\* leaves the ContextManager state unchanged, and so does a call that is
\* still waiting for the backend; the reply enters the context through
\* add_message only after the call returned it.
C17_FailedCompletionLeavesContext ==
    [][/\ Pending /\ call' = call =>
           UNCHANGED <<max_tokens, current_tokens, messages,
                       core_context, core_tokens>>
       /\ call' # call =>
        /\ (call'.pending \/ ~call'.outcome.ok) =>
               UNCHANGED <<max_tokens, current_tokens, messages,
                           core_context, core_tokens>>
        /\ (~call'.pending /\ ~call'.outcome.ok) =>
               call'.exc = call'.outcome.error
        /\ messages' # messages =>
               /\ ~call'.pending
               /\ call'.outcome.ok
               /\ call'.exc = "None"
               /\ Last(messages').content = call'.value
               /\ call'.value = parse_response(call'.provider,
                                               call'.outcome.response).value
               /\ call'.input.messages
                      = current_context(core_context, messages)]_vars

\* a cancelled completion call on a context that holds a core message, a
\* user message and an earlier reply
C17_Witness ==
    /\ call.fn = "create_completion"
    /\ ~call.pending
    /\ ~call.outcome.ok
    /\ call.exc = "CancelledError"
    /\ core_context # <<>>
    /\ Len(messages) = 2
    /\ messages[2].content.role = "assistant"
    /\ Len(call.input.messages) = 3

----------------------------------------------------------------------------
\* The logging collaborator: chat_logger.py

\* datetime.now().strftime(...): the text of the clock's second
strftime(sec) == <<ToString(sec)>>

\* Path.mkdir(parents=True, exist_ok=True)
mkdir(fs, path) == IF path \in DOMAIN fs THEN fs ELSE (path :> Dir) @@ fs

\* Path.touch(): an existing file keeps its lines
touch(fs, path) == IF path \in DOMAIN fs THEN fs ELSE (path :> File(<<>>)) @@ fs

\* open("a") and write: one more line at the end of the file
append_line(fs, path, line) ==
    IF path \in DOMAIN fs
    THEN [fs EXCEPT ![path] = File(Append(fs[path].lines, line))]
    ELSE (path :> File(<<line>>)) @@ fs

\* open("w") and the writes: the file is created or replaced
write_file(fs, path, lines) ==
    IF path \in DOMAIN fs THEN [fs EXCEPT ![path] = File(lines)]
    ELSE (path :> File(lines)) @@ fs

\* Path.write_bytes: the file is created or replaced
write_bytes(fs, path, data) ==
    IF path \in DOMAIN fs THEN [fs EXCEPT ![path] = Bytes(data)]
    ELSE (path :> Bytes(data)) @@ fs

\* base64 text and base64.b64decode
b64encode(data) == [kind |-> "b64", data |-> data]

b64decode(text) == text.data

RECURSIVE path_str(_)
\* str(path): the parts joined with "/"
path_str(parts) ==
    IF Len(parts) = 1 THEN parts[1]
    ELSE parts[1] \o <<"/">> \o path_str(Tail(parts))

\* the wall clock after a datetime.now() read of the logger L: time passes
\* before the next read
tick(L) ==
    IF L.ticks = <<>> THEN L
    ELSE [L EXCEPT !.clock = @ + Head(L.ticks), !.ticks = Tail(@)]

\* ChatLogger.start_session on the logger L
start_session(L) ==
    LET timestamp == strftime(L.clock)
        session == Append(L.base_dir, timestamp)
        log_file == Append(session, <<"chat.log">>)
    IN tick([L EXCEPT !.current_session = Path(session),
                      !.current_log_file = Path(log_file),
                      !.image_counter = 0,
                      !.fs = touch(mkdir(L.fs, session), log_file)])

\* ChatLogger._ensure_session
_ensure_session(L) ==
    IF L.current_session = NoneVal \/ L.current_log_file = NoneVal
    THEN start_session(L) ELSE L

\* the text log_message makes of one block of a content list, or of a
\* dict content, after the "[timestamp]\n" header
block_log_text(block) ==
    IF DOMAIN block = {"str"} THEN block.str
    ELSE IF block.type = "text" THEN block.text
    ELSE IF block.type = "tool_use"
    THEN <<"Tool Use: ">> \o block.name \o <<"\n", "Input: ">> \o block.input
    ELSE IF block.type = "tool_result"
    THEN IF "error" \in DOMAIN block
         THEN <<"Tool Error: ">> \o block.error
         ELSE <<"Tool Result: ">>
              \o (IF block.content.kind = "str" THEN block.content.text
                  ELSE <<"[">> \o json_dumps_list(block.content.blocks)
                       \o <<"]">>)
    ELSE json_dumps(block)

\* the processed_content of log_message
processed_content(display_timestamp, content) ==
    LET header == <<"[">> \o display_timestamp \o <<"]", "\n">> IN
    IF "kind" \notin DOMAIN content THEN
        IF content.type \in {"text", "tool_use"}
        THEN header \o block_log_text(content)
        ELSE json_dumps(content)
    ELSE IF content.kind = "str" THEN header \o content.text
    ELSE IF content.kind = "list"
    THEN join([i \in 1..Len(content.blocks) |->
                  header \o block_log_text(content.blocks[i])])
    ELSE header \o <<"None">>

\* json.dumps(log_entry) and json.loads(line): a line of chat.log
json_line(entry) == [json |-> entry]

json_loads(line) == line.json

\* the log_entry dict of log_message
log_entry(clock, role, content, metadata) ==
    LET base == [timestamp |-> [iso |-> clock], role |-> role,
                 content |-> processed_content(strftime(clock), content)]
    IN IF metadata # NoneVal /\ metadata # <<>>
       THEN ("metadata" :> metadata) @@ base ELSE base

\* str.upper() of a role
upper(role) ==
    CASE role = "user" -> "USER"
      [] role = "assistant" -> "ASSISTANT"
      [] role = "system" -> "SYSTEM"
      [] role = "tool" -> "TOOL"
      [] OTHER -> role

\* the text export_session writes for one line of chat.log
export_record(line) ==
    LET entry == json_loads(line) IN
    <<"[">> \o strftime(entry.timestamp.iso) \o <<"] ", upper(entry.role),
      ":\n">> \o entry.content \o <<"\n\n">>

\* the number of lines in the chat.log files
LoggedLines(fs) ==
    LET logs == {path \in DOMAIN fs : path[Len(path)] = <<"chat.log">>}
        RECURSIVE Total(_)
        Total(S) == IF S = {} THEN 0
                    ELSE LET path == CHOOSE q \in S : TRUE
                         IN Len(fs[path].lines) + Total(S \ {path})
    IN Total(logs)

\* the number of image files
ImageFiles(fs) == Cardinality({path \in DOMAIN fs : fs[path].kind = "bytes"})

\* ChatLogger.log_message on the logger L
log_message(L0, role, content, metadata) ==
    LET L == _ensure_session(L0)
        entry == log_entry(L.clock, role, content, metadata)
    IN tick([L EXCEPT !.fs = append_line(L.fs, L.current_log_file.parts,
                                         json_line(entry))])

\* ChatLogger.save_image on the logger L
save_image(L0, base64_image, description) ==
    LET L1 == _ensure_session(L0)
        image_counter == L1.image_counter + 1
        timestamp == strftime(L1.clock)
        filename == <<"image_">> \o timestamp
                    \o <<"_", ToString(image_counter), ".png">>
        image_path == Append(L1.current_session.parts, filename)
        L2 == tick([L1 EXCEPT
                       !.image_counter = image_counter,
                       !.fs = write_bytes(L1.fs, image_path,
                                          b64decode(base64_image))])
    IN IF description # <<>>
       THEN log_message(L2, "system",
                Str(<<"Saved image: ">> \o filename \o <<" - ">>
                    \o description),
                [image_path |-> path_str(image_path)])
       ELSE L2

\* hasattr(result, name) and result.<name>
HasTruthy(result, name) == name \in DOMAIN result /\ Truthy(result[name])

\* ChatLogger.save_tool_result on the logger L
save_tool_result(L0, result, tool_id) ==
    LET L1 == _ensure_session(L0)
        metadata == [tool_id |-> tool_id, timestamp |-> [iso |-> L1.clock]]
        L2 == tick(L1)
        L3 == IF HasTruthy(result, "error")
              THEN log_message(L2, "tool", Str(<<"Error: ">> \o result.error.text),
                               metadata)
              ELSE L2
        L4 == IF HasTruthy(result, "output")
              THEN log_message(L3, "tool", result.output, metadata)
              ELSE L3
    IN IF HasTruthy(result, "base64_image")
       THEN save_image(L4, result.base64_image,
                       <<"Tool result image from ">> \o tool_id)
       ELSE L4

\* the (role, content, metadata) log_message is called with
LogCalls ==
    {<<"user", Str(<<"hello">>), NoneVal>>,
     <<"assistant",
       List(<<TextBlock(<<"running">>),
              ToolUseBlock(<<"bash">>, <<"id1">>, <<"{}">>)>>),
       [tool_id |-> <<"id1">>]>>}

\* a base64 encoded image
Png == b64encode(<<"png">>)

\* the descriptions save_image is called with
Descriptions == {<<>>, <<"a screenshot">>}

\* the tool results save_tool_result is called with
ToolResults ==
    {[error |-> Str(<<"boom">>), output |-> Str(<<"out">>),
      base64_image |-> Png],
     [error |-> NoneVal, output |-> Str(<<"out">>)],
     [error |-> NoneVal, output |-> Str(<<>>),
      base64_image |-> b64encode(<<>>)]}

\* the formats export_session is called with
ExportFormats == {"txt", "json", "TXT"}

\* the seconds that pass after each of the first n - 1 clock reads of a
\* call that reads the clock at most n times
TickSchedules(n, clock) ==
    LET RECURSIVE Sum(_)
        Sum(q) == IF q = <<>> THEN 0 ELSE q[1] + Sum(Tail(q))
    IN {q \in [1..(n - 1) -> {0, 1}] : clock + Sum(q) <= MaxSecond}

\* the logger after a call: what the caller sees of it
Called(L, name, argument, value, exception) ==
    [L EXCEPT !.ticks = <<>>, !.op = name, !.arg = argument,
              !.value = value, !.exc = exception]

\* a logger just constructed, beside a manager that is left alone
InitLogger ==
    /\ Init
    /\ max_tokens = 100
    /\ core_context = <<>>

\* the wall clock moves on to the next second between two calls
logger_tick ==
    /\ logger.clock < MaxSecond
    /\ logger' = [logger EXCEPT !.clock = @ + 1]
    /\ UNCHANGED <<state, now, op, arg, ret, exc, threads, call, history>>

\* a call of ChatLogger.start_session
logger_start_session ==
    /\ logger' = Called(start_session(logger), "start_session", NoneVal,
                        NoneVal, "None")
    /\ UNCHANGED <<state, now, op, arg, ret, exc, threads, call, history>>

\* a call of ChatLogger.log_message: the clock is read by start_session
\* and at line 46
logger_log_message(role, content, metadata) ==
    /\ LoggedLines(logger.fs) < MaxLog
    /\ \E ticks \in TickSchedules(2, logger.clock) :
        logger' = Called(log_message([logger EXCEPT !.ticks = ticks],
                                     role, content, metadata),
                         "log_message",
                         [role |-> role, content |-> content,
                          metadata |-> metadata],
                         NoneVal, "None")
    /\ UNCHANGED <<state, now, op, arg, ret, exc, threads, call, history>>

\* a call of ChatLogger.save_image: the clock is read by start_session, at
\* line 104 and by log_message
logger_save_image(base64_image, description) ==
    /\ LoggedLines(logger.fs) < MaxLog
    /\ ImageFiles(logger.fs) < MaxImages
    /\ \E ticks \in TickSchedules(3, logger.clock) :
        logger' = Called(save_image([logger EXCEPT !.ticks = ticks],
                                    base64_image, description),
                         "save_image",
                         [base64_image |-> base64_image,
                          description |-> description],
                         NoneVal, "None")
    /\ UNCHANGED <<state, now, op, arg, ret, exc, threads, call, history>>

\* a call of ChatLogger.save_tool_result: the clock is read by
\* start_session, at line 127, by the two log_message calls and by
\* save_image and its log_message
logger_save_tool_result(result, tool_id) ==
    /\ LoggedLines(logger.fs) < MaxLog
    /\ ImageFiles(logger.fs) < MaxImages
    /\ \E ticks \in TickSchedules(6, logger.clock) :
        logger' = Called(save_tool_result([logger EXCEPT !.ticks = ticks],
                                          result, tool_id),
                         "save_tool_result",
                         [result |-> result, tool_id |-> tool_id],
                         NoneVal, "None")
    /\ UNCHANGED <<state, now, op, arg, ret, exc, threads, call, history>>

\* an export_session that opens the output file before it looks at the
\* format
logger_export_session_opens_first(format) ==
    /\ LET L == _ensure_session(logger)
           output_file == Append(L.current_session.parts,
                                <<"session_export.txt">>)
           lines == L.fs[L.current_log_file.parts].lines
       IN IF format = "txt"
          THEN logger' = [L EXCEPT
                  !.fs = write_file(L.fs, output_file,
                             [i \in 1..Len(lines) |-> export_record(lines[i])]),
                  !.op = "export_session", !.arg = format,
                  !.value = Path(output_file), !.exc = "None"]
          ELSE logger' = [L EXCEPT
                  !.fs = write_file(L.fs, output_file, <<>>),
                  !.op = "export_session", !.arg = format,
                  !.value = NoneVal, !.exc = "ValueError"]
    /\ UNCHANGED <<state, now, op, arg, ret, exc, threads, call, history>>

\* a call of ChatLogger.export_session
logger_export_session(format) ==
    /\ LET L == _ensure_session(logger)
           output_file == Append(L.current_session.parts,
                                <<"session_export.txt">>)
           lines == L.fs[L.current_log_file.parts].lines
       IN IF format = "txt"
          THEN logger' = [L EXCEPT
                  !.fs = write_file(L.fs, output_file,
                             [i \in 1..Len(lines) |-> export_record(lines[i])]),
                  !.op = "export_session", !.arg = format,
                  !.value = Path(output_file), !.exc = "None"]
          ELSE logger' = [L EXCEPT
                  !.op = "export_session", !.arg = format,
                  !.value = NoneVal, !.exc = "ValueError"]
    /\ UNCHANGED <<state, now, op, arg, ret, exc, threads, call, history>>

NextLogger ==
    \/ logger_tick
    \/ logger_start_session
    \/ \E c \in LogCalls : logger_log_message(c[1], c[2], c[3])
    \/ \E description \in Descriptions : logger_save_image(Png, description)
    \/ \E result \in ToolResults : logger_save_tool_result(result, <<"id1">>)
    \/ \E format \in ExportFormats : logger_export_session(format)

SpecLogger == InitLogger /\ [][NextLogger]_vars

\* the session_export.txt files and their lines
ExportFiles(fs) ==
    {<<path, fs[path]>> :
        path \in {q \in DOMAIN fs : q[Len(q)] = <<"session_export.txt">>}}

\* C19: export_session with a format other than "txt" raises ValueError
\* and creates or modifies no export file; with "txt" it returns the path
\* of the transcript, which holds one record per logged entry of the
\* session, in log order.
C19_ExportSession ==
    [][(logger'.op = "export_session" /\ logger' # logger) =>
        LET L == logger'
            session == L.current_session.parts
            log == L.fs[Append(session, <<"chat.log">>)].lines
        IN /\ L.arg # "txt" =>
                  /\ L.exc = "ValueError"
                  /\ L.value = NoneVal
                  /\ ExportFiles(L.fs) = ExportFiles(logger.fs)
           /\ L.arg = "txt" =>
                  /\ L.exc = "None"
                  /\ L.value = Path(Append(session, <<"session_export.txt">>))
                  /\ L.value.parts \in DOMAIN L.fs
                  /\ LET out == L.fs[L.value.parts].lines IN
                     /\ Len(out) = Len(log)
                     /\ \A i \in 1..Len(log) :
                            out[i] = <<"[", ToString(log[i].json.timestamp.iso),
                                       "] ", upper(log[i].json.role), ":\n">>
                                     \o log[i].json.content \o <<"\n\n">>
                  /\ \A path \in DOMAIN logger.fs :
                         path # L.value.parts => L.fs[path] = logger.fs[path]
        ]_vars

\* an unsupported format requested after a transcript of two entries was
\* exported: the transcript is still there
C19_Witness ==
    /\ logger.op = "export_session"
    /\ logger.arg = "json"
    /\ logger.exc = "ValueError"
    /\ \E e \in ExportFiles(logger.fs) :
           /\ Len(e[2].lines) = 2
           /\ e[1] = Append(logger.current_session.parts,
                           <<"session_export.txt">>)

----------------------------------------------------------------------------
\* Calls on one ContextManager from concurrent threads.  The manager holds
\* no lock, so a thread switch can fall between any two accesses to its
\* fields; each action below is one such access with the local steps that
\* follow it.  threads[t] holds the locals of the call thread t is in.

\* the messages the threads add
ThreadMessages == {User30, Asst50}

\* the locals of a call that has returned a value or raised an exception
Done(l, value, exception) ==
    [pc |-> "done", op |-> l.op, ret |-> value, exc |-> exception]

\* the threads after a step of thread t that leaves the deque as it is
Step(t, l) == [threads EXCEPT ![t] = l]

\* the threads after a step of thread t that appends to the deque, pops
\* from it or clears it: the deque's state counter moves on, and the
\* iterators the other threads hold on it are out of date
Mutating(t, l) ==
    [u \in Threads |->
        IF u = t THEN l
        ELSE IF "it" \in DOMAIN threads[u]
        THEN [threads[u] EXCEPT !.it.stale = TRUE]
        ELSE threads[u]]

\* iter(self.messages): the iterator of sum(m.tokens for m in
\* self.messages), which yields the entries from the left
deque_iter(msgs) == [index |-> 1, counter |-> Len(msgs), stale |-> FALSE]

\* One resumption of the generator under sum(): the deque's iterator
\* raises RuntimeError when the deque was mutated since iter(), ends when
\* it has yielded every entry, and else yields the next entry's tokens.
\* `after` is the pc that follows the sum.
sum_next(l, msgs, after) ==
    IF l.it.stale
    THEN Done(l, NoneVal, "RuntimeError")
    ELSE IF l.it.counter = 0
    THEN [field \in (DOMAIN l) \ {"it"} |->
             IF field = "pc" THEN after ELSE l[field]]
    ELSE [l EXCEPT !.sum = @ + msgs[l.it.index].tokens,
                   !.it.index = @ + 1,
                   !.it.counter = @ - 1]

\* thread t is free to start a call
CanCall(t) == threads[t].pc \in {"idle", "done"} /\ now < MaxClock

Unshared ==
    <<max_tokens, current_tokens, op, arg, ret, exc, call, logger, history>>

\* add_message, lines 106-107: tokens and removed are locals
t_add_message(t, message) ==
    /\ CanCall(t)
    /\ threads' = Step(t,
           [pc |-> "am_available", op |-> "add_message",
            message |-> message, tokens |-> _count_tokens(message),
            removed |-> <<>>])
    /\ UNCHANGED <<messages, core_context, core_tokens, now, Unshared>>

\* add_message, line 110: reads self.core_tokens
t_am_available(t) ==
    /\ threads[t].pc = "am_available"
    /\ threads' = Step(t,
           [available_tokens |-> max_tokens - core_tokens] @@
           [threads[t] EXCEPT !.pc = "am_iter"])
    /\ UNCHANGED <<messages, core_context, core_tokens, now, Unshared>>

\* add_message, line 111: the iterator over self.messages is made and
\* handed to the generator
t_am_iter(t) ==
    /\ threads[t].pc = "am_iter"
    /\ threads' = Step(t,
           [it |-> deque_iter(messages), sum |-> 0] @@
           [threads[t] EXCEPT !.pc = "am_next"])
    /\ UNCHANGED <<messages, core_context, core_tokens, now, Unshared>>

\* add_message, line 111: sum() resumes the generator once
t_am_next(t) ==
    /\ threads[t].pc = "am_next"
    /\ threads' = Step(t, sum_next(threads[t], messages, "am_while"))
    /\ UNCHANGED <<messages, core_context, core_tokens, now, Unshared>>

\* add_message, line 114: the test of the while loop, current_dynamic_tokens
\* being the local `sum`
t_am_while(t) ==
    /\ threads[t].pc = "am_while"
    /\ LET l == threads[t] IN
       threads' = Step(t, [l EXCEPT !.pc =
           IF l.sum + l.tokens > l.available_tokens /\ messages # <<>>
           THEN "am_pop" ELSE "am_now"])
    /\ UNCHANGED <<messages, core_context, core_tokens, now, Unshared>>

\* add_message, lines 115-117: popleft() raises IndexError on an empty
\* deque
t_am_pop(t) ==
    /\ threads[t].pc = "am_pop"
    /\ LET l == threads[t] IN
       IF messages = <<>>
       THEN /\ threads' = Step(t, Done(l, NoneVal, "IndexError"))
            /\ UNCHANGED messages
       ELSE /\ messages' = Tail(messages)
            /\ threads' = Mutating(t,
                   [l EXCEPT !.pc = "am_while",
                             !.sum = @ - messages[1].tokens,
                             !.removed = Append(@, messages[1])])
    /\ UNCHANGED <<core_context, core_tokens, now, Unshared>>

\* add_message, lines 120-124: datetime.now() is read for the new entry
t_am_now(t) ==
    /\ threads[t].pc = "am_now"
    /\ threads' = Step(t,
           [timestamp |-> now] @@ [threads[t] EXCEPT !.pc = "am_append"])
    /\ now' = now + 1
    /\ UNCHANGED <<messages, core_context, core_tokens, Unshared>>

\* add_message, lines 125-127: the entry is appended
t_am_append(t) ==
    /\ threads[t].pc = "am_append"
    /\ LET l == threads[t] IN
       /\ messages' = append_new(messages, l.message, l.tokens, l.timestamp)
       /\ threads' = Mutating(t, Done(l, l.removed, "None"))
    /\ UNCHANGED <<core_context, core_tokens, now, Unshared>>

\* add_core_message, line 86: tokens is a local
t_add_core_message(t, message) ==
    /\ CanCall(t)
    /\ threads' = Step(t,
           [pc |-> "ac_now", op |-> "add_core_message",
            message |-> message, tokens |-> _count_tokens(message)])
    /\ UNCHANGED <<messages, core_context, core_tokens, now, Unshared>>

\* add_core_message, lines 87-92: datetime.now() is read for the new entry
t_ac_now(t) ==
    /\ threads[t].pc = "ac_now"
    /\ threads' = Step(t,
           [timestamp |-> now] @@ [threads[t] EXCEPT !.pc = "ac_append"])
    /\ now' = now + 1
    /\ UNCHANGED <<messages, core_context, core_tokens, Unshared>>

\* add_core_message, line 93: the entry is appended
t_ac_append(t) ==
    /\ threads[t].pc = "ac_append"
    /\ LET l == threads[t] IN
       core_context' = Append(core_context,
                           MessageContext(l.message, l.tokens, l.timestamp,
                                          TRUE))
    /\ threads' = Step(t, [threads[t] EXCEPT !.pc = "ac_load"])
    /\ UNCHANGED <<messages, core_tokens, now, Unshared>>

\* add_core_message, line 94: += reads self.core_tokens ...
t_ac_load(t) ==
    /\ threads[t].pc = "ac_load"
    /\ threads' = Step(t,
           [loaded |-> core_tokens] @@ [threads[t] EXCEPT !.pc = "ac_store"])
    /\ UNCHANGED <<messages, core_context, core_tokens, now, Unshared>>

\* ... and stores the sum
t_ac_store(t) ==
    /\ threads[t].pc = "ac_store"
    /\ LET l == threads[t] IN
       /\ core_tokens' = l.loaded + l.tokens
       /\ threads' = Step(t, Done(l, NoneVal, "None"))
    /\ UNCHANGED <<messages, core_context, now, Unshared>>

\* clear_dynamic_context, line 160: the copy of the deque
t_clear_dynamic_context(t) ==
    /\ CanCall(t)
    /\ threads' = Step(t,
           [pc |-> "cl_clear", op |-> "clear_dynamic_context",
            removed |-> cleared(messages)])
    /\ UNCHANGED <<messages, core_context, core_tokens, now, Unshared>>

\* clear_dynamic_context, lines 161-162: clear() leaves the state counter
\* of an empty deque alone
t_cl_clear(t) ==
    /\ threads[t].pc = "cl_clear"
    /\ messages' = <<>>
    /\ LET l == Done(threads[t], threads[t].removed, "None") IN
       threads' = IF messages = <<>> THEN Step(t, l) ELSE Mutating(t, l)
    /\ UNCHANGED <<core_context, core_tokens, now, Unshared>>

\* get_token_stats, line 145: the iterator over self.messages is made and
\* handed to the generator
t_get_token_stats(t) ==
    /\ CanCall(t)
    /\ threads' = Step(t,
           [pc |-> "gs_next", op |-> "get_token_stats",
            it |-> deque_iter(messages), sum |-> 0])
    /\ UNCHANGED <<messages, core_context, core_tokens, now, Unshared>>

\* get_token_stats, line 145: sum() resumes the generator once
t_gs_next(t) ==
    /\ threads[t].pc = "gs_next"
    /\ threads' = Step(t, sum_next(threads[t], messages, "gs_core_tokens"))
    /\ UNCHANGED <<messages, core_context, core_tokens, now, Unshared>>

\* get_token_stats, line 147: 'core_tokens' reads self.core_tokens;
\* dynamic_tokens (line 148) is the local `sum`
t_gs_core_tokens(t) ==
    /\ threads[t].pc = "gs_core_tokens"
    /\ threads' = Step(t,
           [core_tokens |-> core_tokens] @@
           [threads[t] EXCEPT !.pc = "gs_total_tokens"])
    /\ UNCHANGED <<messages, core_context, core_tokens, now, Unshared>>

\* get_token_stats, line 149: 'total_tokens' reads self.core_tokens again
t_gs_total_tokens(t) ==
    /\ threads[t].pc = "gs_total_tokens"
    /\ threads' = Step(t,
           [total_tokens |-> core_tokens + threads[t].sum] @@
           [threads[t] EXCEPT !.pc = "gs_available_tokens"])
    /\ UNCHANGED <<messages, core_context, core_tokens, now, Unshared>>

\* get_token_stats, lines 150-151: 'available_tokens' reads
\* self.core_tokens a third time, and the dict is returned
t_gs_available_tokens(t) ==
    /\ threads[t].pc = "gs_available_tokens"
    /\ LET l == threads[t] IN
       threads' = Step(t, Done(l,
            [core_tokens |-> l.core_tokens,
             dynamic_tokens |-> l.sum,
             total_tokens |-> l.total_tokens,
             available_tokens |-> max_tokens - (core_tokens + l.sum)],
            "None"))
    /\ UNCHANGED <<messages, core_context, core_tokens, now, Unshared>>

\* get_current_context, line 136: list(self.messages) is evaluated first
t_get_current_context(t) ==
    /\ CanCall(t)
    /\ threads' = Step(t,
           [pc |-> "gc_core", op |-> "get_current_context",
            copied |-> messages])
    /\ UNCHANGED <<messages, core_context, core_tokens, now, Unshared>>

\* get_current_context, line 136: the + reads self.core_context, and the
\* comprehension takes the contents
t_gc_core(t) ==
    /\ threads[t].pc = "gc_core"
    /\ LET l == threads[t] IN
       threads' = Step(t, Done(l, current_context(core_context, l.copied),
                               "None"))
    /\ UNCHANGED <<messages, core_context, core_tokens, now, Unshared>>

NextThreads ==
    \E t \in Threads :
        \/ \E message \in ThreadMessages : t_add_message(t, message)
        \/ t_am_available(t)
        \/ t_am_iter(t)
        \/ t_am_next(t)
        \/ t_am_while(t)
        \/ t_am_pop(t)
        \/ t_am_now(t)
        \/ t_am_append(t)
        \/ \E message \in ThreadMessages : t_add_core_message(t, message)
        \/ t_ac_now(t)
        \/ t_ac_append(t)
        \/ t_ac_load(t)
        \/ t_ac_store(t)
        \/ t_clear_dynamic_context(t)
        \/ t_cl_clear(t)
        \/ t_get_token_stats(t)
        \/ t_gs_next(t)
        \/ t_gs_core_tokens(t)
        \/ t_gs_total_tokens(t)
        \/ t_gs_available_tokens(t)
        \/ t_get_current_context(t)
        \/ t_gc_core(t)

\* a manager with a budget of 60 tokens and at most one core entry, no
\* call in progress
InitThreads ==
    /\ Init
    /\ max_tokens = 60
    /\ Len(core_context) <= 1

SpecThreads == InitThreads /\ [][NextThreads]_vars

\* thread t has returned from a call of add_message
AddDone(t) ==
    /\ threads[t].pc = "done"
    /\ threads[t].op = "add_message"
    /\ threads[t].exc = "None"

\* C11: insertions are serialized: once every thread has returned from a
\* call of add_message, the dynamic entries fit the budget left by the core
\* context, unless only the one oversized entry is left.
C11_MutationsSerialized ==
    (\A t \in Threads : AddDone(t)) =>
        \/ SumTokens(messages) <= max_tokens - core_tokens
        \/ Len(messages) = 1

\* thread u has changed part of the state and not yet the rest: a core
\* entry appended whose tokens are not counted, or entries evicted by an
\* add_message that has not appended
Torn(u) ==
    \/ threads[u].pc \in {"ac_load", "ac_store"}
    \/ /\ threads[u].pc \in {"am_while", "am_pop", "am_now", "am_append"}
       /\ threads[u].removed # <<>>

\* thread t takes a step of a read operation in this step: its pc moves, or
\* its iterator does
ReadStep(t) ==
    /\ \/ threads'[t].pc # threads[t].pc
       \/ /\ threads[t].pc = "gs_next"
          /\ threads'[t].it.counter # threads[t].it.counter
    /\ threads'[t].op \in {"get_token_stats", "get_current_context"}

\* the dict thread t got from get_token_stats is the stats of one state of
\* the manager: its total is its core plus its dynamic tokens, and what it
\* reports available is the budget less that total
StatsOfOneState(t) ==
    (/\ threads[t].pc = "done"
     /\ threads[t].op = "get_token_stats"
     /\ threads[t].exc = "None") =>
        LET r == threads[t].ret IN
        /\ r.total_tokens = r.core_tokens + r.dynamic_tokens
        /\ r.available_tokens = max_tokens - r.total_tokens

\* C12: reads are serialized with mutations: no step of get_token_stats or
\* get_current_context reads the manager while another thread has changed
\* part of its state and not yet the rest, and the totals get_token_stats
\* returns are those of one state of the manager.
C12_ReadsSerialized ==
    [][\A t \in Threads :
           /\ ReadStep(t) => \A u \in Threads \ {t} : ~Torn(u)
           /\ StatsOfOneState(t)']_vars

----------------------------------------------------------------------------
\* a tool_result with the non-text blocks of its nested list removed
WithoutNestedNonText(block) ==
    IF block.type = "tool_result" /\ block.content.kind = "list"
    THEN [block EXCEPT !.content.blocks =
              SelectSeq(@, LAMBDA b : b.type = "text")]
    ELSE block

\* the blocks of a message without the tool_use blocks and without the
\* non-text blocks nested in tool results
WithoutSkipped(blocks) ==
    LET kept == SelectSeq(blocks, LAMBDA b : b.type # "tool_use")
    IN [i \in 1..Len(kept) |-> WithoutNestedNonText(kept[i])]

\* the number of newlines in a text
RECURSIVE Newlines(_)
Newlines(text) ==
    IF text = <<>> THEN 0
    ELSE (IF text[1] = "\n" THEN 1 ELSE 0) + Newlines(Tail(text))

\* the number of lines the blocks contribute: one per text block, per
\* string tool result and per text block nested in a tool result
RECURSIVE LineCount(_)
LineCount(blocks) ==
    IF blocks = <<>> THEN 0
    ELSE (IF blocks[1].type = "text" THEN 1
          ELSE IF blocks[1].type = "tool_result"
          THEN IF blocks[1].content.kind = "str" THEN 1
               ELSE IF blocks[1].content.kind = "list"
               THEN Len(SelectSeq(blocks[1].content.blocks,
                                  LAMBDA b : b.type = "text"))
               ELSE 0
          ELSE 0)
         + LineCount(Tail(blocks))

\* C21: prepare_messages skips tool_use blocks and the non-text blocks
\* nested in a tool_result: the flattened text is the text of the message
\* without them, with separators only between the lines of the other
\* blocks, and a message of tool_use blocks only is emitted with its role
\* and the empty string.
C21_ToolUseSkipped ==
    call.fn = "prepare_messages" =>
        /\ Len(call.value) = Len(call.input)
        /\ \A i \in 1..Len(call.input) :
            LET m == call.input[i]
                out == call.value[i]
            IN m.content.kind = "list" =>
                LET blocks == m.content.blocks
                    lines == LineCount(blocks)
                IN /\ out.role = m.role
                   /\ out.content.kind = "str"
                   /\ out.content.text = ExpectedFlat(WithoutSkipped(blocks))
                   /\ Newlines(out.content.text)
                          = IF lines = 0 THEN 0 ELSE lines - 1
                   /\ (\A j \in 1..Len(blocks) : blocks[j].type = "tool_use")
                          => out.content.text = <<>>

\* a message of one tool_use block flattened to the empty string, and a
\* nested image left out of a tool result
C21_Witness ==
    /\ call.fn = "prepare_messages"
    /\ call.input = <<ToolOnly, Nested>>
    /\ call.value[1] = [role |-> "assistant", content |-> Str(<<>>)]
    /\ call.value[2].role = "user"
    /\ Newlines(call.value[2].content.text) = 2

----------------------------------------------------------------------------
\* A caller that keeps every message it passes to add_message, with the
\* tokens counted for it, and every list add_message and
\* clear_dynamic_context return, in call order.

\* the messages the caller adds
HistoryMessages == {User30, Asst50, Blocks24}

\* a call of add_core_message
h_add_core_message(message) ==
    /\ now < MaxClock
    /\ LET r == core_append(core_context, core_tokens, message, now) IN
        /\ core_context' = r.core_context
        /\ core_tokens' = r.core_tokens
    /\ now' = now + 1
    /\ op' = "add_core_message"
    /\ arg' = message
    /\ ret' = "None"
    /\ UNCHANGED <<max_tokens, current_tokens, messages, exc>>
    /\ UNCHANGED <<threads, call, logger, history>>

\* a call of add_message; the caller keeps the message and the returned
\* list
h_add_message(message) ==
    /\ now < MaxClock
    /\ LET tokens == _count_tokens(message)
           available_tokens == max_tokens - core_tokens
           current_dynamic_tokens == SumTokens(messages)
           r == evict(messages, current_dynamic_tokens, tokens,
                      available_tokens, <<>>)
       IN /\ messages' = append_new(r.messages, message, tokens, now)
          /\ ret' = r.removed
          /\ history' =
                 [inserted |-> Append(history.inserted,
                                      [content |-> message, tokens |-> tokens]),
                  returned |-> history.returned \o r.removed]
    /\ now' = now + 1
    /\ op' = "add_message"
    /\ arg' = message
    /\ UNCHANGED <<max_tokens, current_tokens, core_context, core_tokens, exc>>
    /\ UNCHANGED <<threads, call, logger>>

\* a call of clear_dynamic_context; the caller keeps the returned list
h_clear_dynamic_context ==
    /\ op' = "clear_dynamic_context"
    /\ arg' = "None"
    /\ ret' = cleared(messages)
    /\ messages' = <<>>
    /\ history' = [history EXCEPT !.returned = @ \o cleared(messages)]
    /\ UNCHANGED <<max_tokens, current_tokens, core_context, core_tokens,
                   now, exc>>
    /\ UNCHANGED <<threads, call, logger>>

NextHistory ==
    \/ h_add_core_message(Sys20)
    \/ \E message \in HistoryMessages : h_add_message(message)
    \/ h_clear_dynamic_context

SpecHistory == Init /\ [][NextHistory]_vars

\* every entry the caller got back, in call order, then the entries the
\* manager still holds
Whereabouts == history.returned \o messages

\* C22: after any sequence of add_core_message, add_message and
\* clear_dynamic_context calls the returned lists in call order followed by
\* the current dynamic entries are the messages passed to add_message, in
\* insertion order, each once and with the tokens counted at its insertion.
C22_DynamicMessagesConserved ==
    /\ Len(Whereabouts) = Len(history.inserted)
    /\ \A i \in 1..Len(Whereabouts) :
        /\ Whereabouts[i].content = history.inserted[i].content
        /\ Whereabouts[i].tokens = history.inserted[i].tokens
        /\ ~Whereabouts[i].is_core
    /\ \A i, j \in 1..Len(Whereabouts) :
        i # j => Whereabouts[i] # Whereabouts[j]

\* three insertions next to a core context: two entries went back to the
\* caller, the older first, and the newest is held
C22_Witness ==
    /\ Len(history.inserted) = 3
    /\ Len(history.returned) = 2
    /\ Len(messages) = 1
    /\ core_context # <<>>
    /\ history.returned[1].timestamp < history.returned[2].timestamp
    /\ history.returned[2].timestamp < messages[1].timestamp

----------------------------------------------------------------------------
\* the provider a call was not made on
OtherProvider(provider) == CHOOSE p \in Providers : p # provider

\* C23: OpenAIProvider and GroqProvider are equivalent on the canonical
\* contract: prepare_messages and prepare_tools return in one what they
\* return in the other on the same input, and so does parse_response on
\* every response whose message has a tool_calls field, be it a list, an
\* empty list or None.
C23_ProvidersEquivalent ==
    LET other == OtherProvider(call.provider) IN
    /\ call.fn = "prepare_messages" =>
           /\ call.exc = "None"
           /\ call.value = prepare_messages(other, call.input)
    /\ call.fn = "prepare_tools" =>
           /\ call.exc = "None"
           /\ call.value = prepare_tools(other, call.input)
    /\ (/\ call.fn = "parse_response"
        /\ "tool_calls" \in DOMAIN call.input.choices[1].message) =>
           /\ call.exc = "None"
           /\ Returned(call.value) = parse_response(other, call.input)

\* GroqProvider parses a response with text and two tool calls into the
\* three blocks OpenAIProvider parses it into
C23_Witness ==
    /\ call.fn = "parse_response"
    /\ call.provider = "GroqProvider"
    /\ call.input.choices[1].message
           = [content |-> Str(<<"hello">>),
              tool_calls |-> List(<<CallRead, CallBash>>)]
    /\ call.exc = "None"
    /\ Len(call.value.content.blocks) = 3
    /\ call.value = OpenAIProvider_parse_response(call.input).value
====
